---- MODULE Spec2Model ----
(***************************************************************************)
(* make_docs.py: a linear script that creates docs/, moves every entry of  *)
(* target/release into docs/ and writes docs/index.html listing them.      *)
(* One action per statement of the script; every filesystem call may       *)
(* raise, and an uncaught exception ends the run.                          *)
(***************************************************************************)
EXTENDS Naturals, Sequences, FiniteSets, TLC

\* ---------------------------------------------------------------- bounds
MaxRuns == 2
MaxEntries == 2
MaxNameLen == 2

\* ---------------------------------------------------------------- names
\* A file name is a non-empty sequence of characters.
IndexName == <<"i", "n", "d", "e", "x", ".", "h", "t", "m", "l">>
ExampleName == <<"a", "&", "<", "b", ">", ".", "t", "x", "t">>
PlainName == <<"a">>
OldName == <<"o", "l", "d">>

\* The names the build step may leave in target/release.
Names == {PlainName, ExampleName, IndexName}

\* The names docs/ may hold before the first run.
DestNames == {OldName, PlainName, IndexName}

Alphabet == {"&", "<", ">", "\"", "'", "a"}

BoundedNames == UNION {[1..n -> Alphabet] : n \in 1..MaxNameLen}

\* ---------------------------------------------------------------- strings
RECURSIVE Str(_)
\* The Python str made of the characters cs.
Str(cs) == IF cs = <<>> THEN "" ELSE Head(cs) \o Str(Tail(cs))

RECURSIVE replace(_, _, _)
\* str.replace(old, new) for a one-character old.
replace(s, old, new) ==
    IF s = <<>> THEN <<>>
    ELSE (IF Head(s) = old THEN new ELSE <<Head(s)>>) \o replace(Tail(s), old, new)

\* A plausible slip: the ampersand replaced last, so the entities written by
\* the other replacements are escaped a second time.
escape_amp_last(s) ==
    LET s1 == replace(s, "<", <<"&", "l", "t", ";">>)
        s2 == replace(s1, ">", <<"&", "g", "t", ";">>)
        s3 == replace(s2, "\"", <<"&", "q", "u", "o", "t", ";">>)
        s4 == replace(s3, "'", <<"&", "#", "x", "2", "7", ";">>)
    IN  replace(s4, "&", <<"&", "a", "m", "p", ";">>)

\* html.escape(s, quote=True): five replacements in sequence, & first.
escape(s) ==
    LET s1 == replace(s, "&", <<"&", "a", "m", "p", ";">>)
        s2 == replace(s1, "<", <<"&", "l", "t", ";">>)
        s3 == replace(s2, ">", <<"&", "g", "t", ";">>)
        s4 == replace(s3, "\"", <<"&", "q", "u", "o", "t", ";">>)
    IN  replace(s4, "'", <<"&", "#", "x", "2", "7", ";">>)

\* ---------------------------------------------------------------- markup
Header == "<h1>Binary builds</h1>\n<ul>\n"

Footer == "</ul>\n"

\* The f-string of the loop body.
ListItem(l) == "<li><a href=\"" \o l \o "\">" \o l \o "</a></li>\n"

\* A plausible slip: the new item put in front of the items already there.
AddItemFront(content, item) == <<Head(content), item>> \o Tail(content)

\* A plausible slip: the item added twice.
AddItemTwice(content, item) == content \o <<item, item>>

\* index_content += item
AddItem(content, item) == Append(content, item)

\* ---------------------------------------------------------------- files
\* The content of docs/index.html: no file, an entry's content, or text.
NoFile == [kind |-> "none", id |-> 0, text |-> <<>>]

Blob(r) == [kind |-> "blob", id |-> r, text |-> <<>>]

Text(t) == [kind |-> "text", id |-> 0, text |-> t]

\* An index written by an earlier build, listing OldName.
OldIndex == Text(<<Header, ListItem(Str(escape(OldName))), Footer>>)

\* The orders in which a directory listing may yield the set S.
Orderings(S) ==
    {s \in [1..Cardinality(S) -> S] : \A i, j \in 1..Cardinality(S) : s[i] = s[j] => i = j}

\* A plausible slip: exist_ok not honoured.
mkdir_raises_strict(kind, exist_ok) == kind # "absent"

\* Path.mkdir: os.mkdir raises when the path exists; the error is swallowed
\* only if exist_ok and the path is a directory.
mkdir_raises(kind, exist_ok) == kind # "absent" /\ (~exist_ok \/ kind # "dir")

\* A plausible slip: the directory recreated empty.
mkdir_fresh(d, exist_ok) ==
    IF mkdir_raises(d.kind, exist_ok)
    THEN [raised |-> TRUE, kind |-> d.kind, contents |-> d.contents, index |-> d.index]
    ELSE [raised |-> FALSE, kind |-> "dir", contents |-> {}, index |-> NoFile]

\* DOCS_DIR.mkdir(parents=True, exist_ok=...) on the directory state d.
mkdir(d, exist_ok) ==
    IF mkdir_raises(d.kind, exist_ok)
    THEN [raised |-> TRUE, kind |-> d.kind, contents |-> d.contents, index |-> d.index]
    ELSE [raised |-> FALSE, kind |-> "dir",
          contents |-> IF d.kind = "absent" THEN {} ELSE d.contents,
          index |-> IF d.kind = "absent" THEN NoFile ELSE d.index]

\* A plausible slip: the entry copied, not moved.
copy_source(s, name) == s

\* The source directory after name is renamed out of it.
rename_source(s, name) == s \ {name}

\* A plausible slip: the entry renamed to a path outside docs/.
rename_elsewhere(d, name) == d

\* The destination directory after name is renamed into it.
rename_dest(d, name) == d \cup {name}

VARIABLES
    pc,             \* the statement about to run
    run,            \* the number of this invocation
    src_exists,     \* target/release exists
    src,            \* the names in target/release
    dest_kind,      \* docs: "absent", "dir" or "file"
    dest,           \* the names in docs/
    index_html,     \* the content of docs/index.html
    todo,           \* what the iterdir() iterator has yet to yield
    file,           \* the loop variable (its name)
    link,           \* the variable link
    index_content,  \* the variable index_content, as the chunks added to it
    error,          \* the call that raised, or "none"
    \* history
    src0, dest_kind0, dest0, index0,  \* the filesystem when the run began
    listing,        \* what iterdir() yielded, in order
    moved,          \* the names renamed by this run, in order
    everMoved       \* the names renamed by any run

vars == <<pc, run, src_exists, src, dest_kind, dest, index_html, todo, file, link,
          index_content, error, src0, dest_kind0, dest0, index0, listing, moved,
          everMoved>>

fsvars == <<src_exists, src, dest_kind, dest, index_html>>

hist0 == <<src0, dest_kind0, dest0, index0>>

DestDir == [kind |-> dest_kind, contents |-> dest, index |-> index_html]

\* ---------------------------------------------------------------- Init
InitCommon ==
    /\ pc = "mkdir"
    /\ run = 1
    /\ todo = <<>>
    /\ file = <<>>
    /\ link = ""
    /\ index_content = <<>>
    /\ error = "none"
    /\ src0 = src
    /\ dest_kind0 = dest_kind
    /\ dest0 = dest
    /\ index0 = index_html
    /\ listing = <<>>
    /\ moved = <<>>
    /\ everMoved = {}

InitDest ==
    /\ dest_kind \in {"absent", "dir", "file"}
    /\ dest \in SUBSET DestNames
    /\ dest_kind # "dir" => dest = {}
    /\ index_html \in {NoFile, Blob(0), OldIndex}
    /\ (IndexName \in dest) <=> (index_html # NoFile)
    /\ index_html = OldIndex => OldName \in dest

Init ==
    /\ src_exists \in BOOLEAN
    /\ src \in {S \in SUBSET Names : Cardinality(S) <= MaxEntries}
    /\ ~src_exists => src = {}
    /\ InitDest
    /\ InitCommon

\* One entry whose name ranges over every bounded name.
EscapeInit ==
    /\ src_exists = TRUE
    /\ src \in {{n} : n \in BoundedNames \cup {ExampleName}}
    /\ dest_kind \in {"absent", "dir"}
    /\ dest = {}
    /\ index_html = NoFile
    /\ InitCommon

\* ---------------------------------------------------------------- the script
Raise(call) ==
    /\ pc' = "failed"
    /\ error' = call

\* line 5, no exception
MkdirOk ==
    /\ pc = "mkdir"
    /\ LET r == mkdir(DestDir, TRUE)
       IN  /\ ~r.raised
           /\ dest_kind' = r.kind
           /\ dest' = r.contents
           /\ index_html' = r.index
    /\ pc' = "init"
    /\ UNCHANGED <<run, src_exists, src, todo, file, link, index_content, error,
                   hist0, listing, moved, everMoved>>

\* line 5 raises: FileExistsError (docs is not a directory), or the directory
\* cannot be created
MkdirFail ==
    /\ pc = "mkdir"
    /\ mkdir(DestDir, TRUE).raised \/ dest_kind = "absent"
    /\ Raise("mkdir")
    /\ UNCHANGED <<run, fsvars, todo, file, link, index_content, hist0, listing,
                   moved, everMoved>>

\* lines 7-10
InitContent ==
    /\ pc = "init"
    /\ index_content' = <<Header>>
    /\ pc' = "iterdir"
    /\ UNCHANGED <<run, fsvars, todo, file, link, error, hist0, listing, moved,
                   everMoved>>

\* line 12, iterdir() lists the directory
IterdirOk ==
    /\ pc = "iterdir"
    /\ src_exists
    /\ \E order \in Orderings(src) :
           /\ todo' = order
           /\ listing' = order
    /\ pc' = "next"
    /\ UNCHANGED <<run, fsvars, file, link, index_content, error, hist0, moved,
                   everMoved>>

\* line 12 raises: FileNotFoundError, or the directory cannot be read
IterdirFail ==
    /\ pc = "iterdir"
    /\ Raise("iterdir")
    /\ UNCHANGED <<run, fsvars, todo, file, link, index_content, hist0, listing,
                   moved, everMoved>>

\* line 12, the for statement takes the next entry or leaves the loop
NextFile ==
    /\ pc = "next"
    /\ IF todo # <<>>
       THEN /\ file' = Head(todo)
            /\ todo' = Tail(todo)
            /\ pc' = "rename"
       ELSE /\ pc' = "close"
            /\ UNCHANGED <<file, todo>>
    /\ UNCHANGED <<run, fsvars, link, index_content, error, hist0, listing, moved,
                   everMoved>>

\* line 13, no exception; an entry of the same name in docs/ is replaced
RenameOk ==
    /\ pc = "rename"
    /\ src' = rename_source(src, file)
    /\ dest' = rename_dest(dest, file)
    /\ index_html' = IF file = IndexName THEN Blob(run) ELSE index_html
    /\ moved' = Append(moved, file)
    /\ everMoved' = everMoved \cup {file}
    /\ pc' = "escape"
    /\ UNCHANGED <<run, src_exists, dest_kind, todo, file, link, index_content,
                   error, hist0, listing>>

\* A plausible slip: the link recorded before the move is known to succeed.
RenameFailRecorded ==
    /\ pc = "rename"
    /\ Raise("rename")
    /\ index_content' = AddItem(index_content, ListItem(Str(escape(file))))
    /\ UNCHANGED <<run, fsvars, todo, file, link, hist0, listing, moved, everMoved>>

\* A plausible slip: the index written from a cleanup handler when a move fails.
RenameFailFlush ==
    /\ pc = "rename"
    /\ Raise("rename")
    /\ index_html' = Text(index_content)
    /\ dest' = dest \cup {IndexName}
    /\ UNCHANGED <<run, src_exists, src, dest_kind, todo, file, link, index_content,
                   hist0, listing, moved, everMoved>>

\* line 13 raises (permission, cross-device, a target that cannot be replaced)
RenameFail ==
    /\ pc = "rename"
    /\ Raise("rename")
    /\ UNCHANGED <<run, fsvars, todo, file, link, index_content, hist0, listing,
                   moved, everMoved>>

\* line 14
Escape ==
    /\ pc = "escape"
    /\ link' = Str(escape(file))
    /\ pc' = "append"
    /\ UNCHANGED <<run, fsvars, todo, file, index_content, error, hist0, listing,
                   moved, everMoved>>

\* line 15
AppendItem ==
    /\ pc = "append"
    /\ index_content' = AddItem(index_content, ListItem(link))
    /\ pc' = "next"
    /\ UNCHANGED <<run, fsvars, todo, file, link, error, hist0, listing, moved,
                   everMoved>>

\* line 17
Close ==
    /\ pc = "close"
    /\ index_content' = Append(index_content, Footer)
    /\ pc' = "write"
    /\ UNCHANGED <<run, fsvars, todo, file, link, error, hist0, listing, moved,
                   everMoved>>

\* A plausible slip: the new text added to the index already on disk.
written_merged(old, content) ==
    IF old.kind = "text" THEN Text(old.text \o content) ELSE Text(content)

\* write_text opens with mode "w": the old content is discarded.
written(old, content) == Text(content)

\* line 19, no exception
WriteOk ==
    /\ pc = "write"
    /\ index_html' = written(index_html, index_content)
    /\ dest' = dest \cup {IndexName}
    /\ pc' = "done"
    /\ UNCHANGED <<run, src_exists, src, dest_kind, todo, file, link,
                   index_content, error, hist0, listing, moved, everMoved>>

\* line 19 raises: in open() (nothing changes), or in write() after open()
\* has truncated the file
WriteFail ==
    /\ pc = "write"
    /\ \/ UNCHANGED <<dest, index_html>>
       \/ /\ index_html' = Text(<<>>)
          /\ dest' = dest \cup {IndexName}
    /\ Raise("write")
    /\ UNCHANGED <<run, src_exists, src, dest_kind, todo, file, link,
                   index_content, hist0, listing, moved, everMoved>>

\* ---------------------------------------------------------------- between runs
Idle == pc \in {"done", "failed", "idle"} /\ run < MaxRuns

\* The external build step leaves new entries in target/release.
Build ==
    /\ Idle
    /\ \E S \in SUBSET Names :
           /\ S \ src # {}
           /\ Cardinality(src \cup S) <= MaxEntries
           /\ src' = src \cup S
    /\ src_exists' = TRUE
    /\ pc' = "idle"
    /\ UNCHANGED <<run, dest_kind, dest, index_html, todo, file, link,
                   index_content, error, hist0, listing, moved, everMoved>>

\* target/release is removed.
Clean ==
    /\ Idle
    /\ src_exists
    /\ src_exists' = FALSE
    /\ src' = {}
    /\ pc' = "idle"
    /\ UNCHANGED <<run, dest_kind, dest, index_html, todo, file, link,
                   index_content, error, hist0, listing, moved, everMoved>>

\* The script is started again, in a fresh interpreter.
Invoke ==
    /\ Idle
    /\ run' = run + 1
    /\ pc' = "mkdir"
    /\ todo' = <<>>
    /\ file' = <<>>
    /\ link' = ""
    /\ index_content' = <<>>
    /\ error' = "none"
    /\ src0' = src
    /\ dest_kind0' = dest_kind
    /\ dest0' = dest
    /\ index0' = index_html
    /\ listing' = <<>>
    /\ moved' = <<>>
    /\ UNCHANGED <<fsvars, everMoved>>

\* One invocation of the script.
Script ==
    \/ MkdirOk
    \/ MkdirFail
    \/ InitContent
    \/ IterdirOk
    \/ IterdirFail
    \/ NextFile
    \/ RenameOk
    \/ RenameFail
    \/ Escape
    \/ AppendItem
    \/ Close
    \/ WriteOk
    \/ WriteFail

Next ==
    \/ Script
    \/ Build
    \/ Clean
    \/ Invoke

Spec == Init /\ [][Next]_vars

\* One invocation on one entry of any bounded name.
EscapeSpec == EscapeInit /\ [][Script]_vars

TypeOK ==
    /\ pc \in {"mkdir", "init", "iterdir", "next", "rename", "escape", "append",
               "close", "write", "done", "failed", "idle"}
    /\ run \in 1..MaxRuns
    /\ (IndexName \in dest) <=> (index_html # NoFile)
    /\ dest_kind # "dir" => dest = {}

\* ---------------------------------------------------------------- properties
\* The HTML entity of one character.
EntityOf(c) ==
    CASE c = "&" -> "&amp;"
      [] c = "<" -> "&lt;"
      [] c = ">" -> "&gt;"
      [] c = "\"" -> "&quot;"
      [] c = "'" -> "&#x27;"
      [] OTHER -> c

RECURSIVE Escaped(_)
\* Each character of cs replaced by its entity, the others kept.
Escaped(cs) == IF cs = <<>> THEN "" ELSE EntityOf(Head(cs)) \o Escaped(Tail(cs))

ExpectedItem(n) ==
    "<li><a href=\"" \o Escaped(n) \o "\">" \o Escaped(n) \o "</a></li>\n"

Range(s) == {s[i] : i \in DOMAIN s}

RECURSIVE Join(_)
Join(chunks) == IF chunks = <<>> THEN "" ELSE Head(chunks) \o Join(Tail(chunks))

\* The list items among the chunks of a buffer.
ItemsOf(content) == SelectSeq(content, LAMBDA x : x \notin {Header, Footer})

\* C1 as stated: after a successful run on a non-empty source, docs/ holds
\* exactly the source's names and index.html, whatever it held before, and
\* the source holds none of them.
C1_Original ==
    (pc = "done" /\ src0 # {}) =>
        /\ dest = src0 \cup {IndexName}
        /\ src \cap src0 = {}

\* C1 amended: after a successful run on a non-empty source, docs/ holds
\* exactly the source's names, index.html and the names it held before the
\* run, and the source holds none of its former entries.
C1_Completeness ==
    (pc = "done" /\ src0 # {}) =>
        /\ dest = dest0 \cup src0 \cup {IndexName}
        /\ src \cap src0 = {}

C1_Witness ==
    /\ pc = "done"
    /\ Cardinality(src0) = 2
    /\ OldName \in dest0
    /\ dest = dest0 \cup src0 \cup {IndexName}

\* C2 as stated: when target/release is missing the run fails with docs/
\* (its existence and contents) exactly as it was before the run.
C2_Original ==
    (pc = "failed" /\ error = "iterdir" /\ ~src_exists) =>
        /\ dest_kind = dest_kind0
        /\ dest = dest0
        /\ index_html = index0

\* C2 amended: when target/release is missing the run fails after the
\* ensure-destination step: docs/ exists (created empty if it was absent),
\* the contents it had are unchanged, nothing is moved and no index.html is
\* written.
C2_MissingSource ==
    (pc = "failed" /\ error = "iterdir" /\ ~src_exists) =>
        /\ dest_kind = "dir"
        /\ dest = dest0
        /\ index_html = index0
        /\ moved = <<>>
        /\ src = src0

C2_Witness ==
    /\ pc = "failed"
    /\ error = "iterdir"
    /\ ~src_exists
    /\ dest_kind0 = "absent"
    /\ dest_kind = "dir"
    /\ dest = {}

\* C3: after a successful run, index.html holds exactly one list item
\* <li><a href="X">X</a></li> for each entry the source had, X its escaped
\* name, and as many list items as the source had entries.
C3_IndexCorrectness ==
    pc = "done" =>
        /\ index_html.kind = "text"
        /\ \A e \in src0 :
               Cardinality({i \in DOMAIN index_html.text :
                                index_html.text[i] = ExpectedItem(e)}) = 1
        /\ Len(ItemsOf(index_html.text)) = Cardinality(src0)

C3_Witness ==
    /\ pc = "done"
    /\ src0 = {ExampleName, IndexName}
    /\ Len(ItemsOf(index_html.text)) = 2

\* C4: after a successful run the text of index.html is the heading line,
\* the <ul> line, one list-item line per entry in the order of the directory
\* enumeration, and the </ul> line; for an empty source it is the heading and
\* an empty list.
C4_DocumentShape ==
    pc = "done" =>
        /\ Range(listing) = src0
        /\ Len(listing) = Cardinality(src0)
        /\ index_html.kind = "text"
        /\ index_html.text =
               <<Header>> \o [i \in 1..Len(listing) |-> ExpectedItem(listing[i])]
                          \o <<Footer>>
        /\ Join(index_html.text) =
               "<h1>Binary builds</h1>\n" \o "<ul>\n"
                   \o Join([i \in 1..Len(listing) |-> ExpectedItem(listing[i])])
                   \o "</ul>\n"

\* A run on an empty source that succeeded, after a run that listed two entries.
C4_Witness ==
    /\ pc = "done"
    /\ src0 = {}
    /\ Join(index_html.text) = "<h1>Binary builds</h1>\n<ul>\n</ul>\n"
    /\ index0.kind = "text"
    /\ Len(index0.text) = 4
    /\ index0.text[2] # index0.text[3]

\* C5: when the move of the k-th enumerated entry fails the run is over: the
\* k-1 entries moved before it are in docs/ and not in the source, the k-th
\* and the later ones are still in the source, and nothing else has changed.
C5_NoRollback ==
    (pc = "failed" /\ error = "rename") =>
        LET k == Len(moved) + 1
        IN  /\ k <= Len(listing)
            /\ file = listing[k]
            /\ moved = SubSeq(listing, 1, k - 1)
            /\ todo = SubSeq(listing, k + 1, Len(listing))
            /\ \A i \in 1..(k - 1) : listing[i] \in dest /\ listing[i] \notin src
            /\ \A i \in k..Len(listing) : listing[i] \in src
            /\ src = src0 \ Range(moved)
            /\ dest = dest0 \cup Range(moved)
            /\ Len(ItemsOf(index_content)) = k - 1

C5_Witness ==
    /\ pc = "failed"
    /\ error = "rename"
    /\ Len(moved) = 1
    /\ Len(listing) = 2
    /\ moved[1] \in dest
    /\ moved[1] \notin src
    /\ file \in src

\* C6: the index.html a successful run leaves lists only the entries the
\* source had when that run began, and every entry any run has moved into
\* docs/ is still there.
C6_RebuiltNotCleared ==
    /\ pc = "done" =>
           /\ index_html.kind = "text"
           /\ Range(ItemsOf(index_html.text)) = {ExpectedItem(n) : n \in src0}
    /\ everMoved \subseteq dest

\* A second run whose index drops a link of the first run's index, the
\* entry itself still in docs/.
C6_Witness ==
    /\ pc = "done"
    /\ run = 2
    /\ index0.kind = "text"
    /\ \E n \in everMoved :
           /\ n \notin src0
           /\ n \in dest
           /\ ExpectedItem(n) \in Range(index0.text)
           /\ ExpectedItem(n) \notin Range(index_html.text)

\* C7: the href and the text of an entry's link are one string, the name
\* with each of & < > " ' replaced by its entity and every other character
\* kept; a&<b>.txt gives a&amp;&lt;b&gt;.txt in both places.
C7_Escaping ==
    /\ pc = "append" => link = Escaped(file)
    /\ (pc = "next" /\ moved # <<>>) =>
           index_content[Len(index_content)] =
               "<li><a href=\"" \o Escaped(file) \o "\">" \o Escaped(file)
                   \o "</a></li>\n"
    /\ (pc = "next" /\ moved # <<>> /\ file = ExampleName) =>
           index_content[Len(index_content)] =
               "<li><a href=\"a&amp;&lt;b&gt;.txt\">a&amp;&lt;b&gt;.txt</a></li>\n"

C7_Witness ==
    /\ pc = "next"
    /\ file = ExampleName
    /\ index_content[Len(index_content)] =
           "<li><a href=\"a&amp;&lt;b&gt;.txt\">a&amp;&lt;b&gt;.txt</a></li>\n"

\* C8: the ensure-destination step on an existing docs/ directory raises
\* nothing and leaves its contents as they were, and doing it twice is the
\* same as doing it once.
C8_EnsureIdempotent ==
    /\ dest_kind0 = "dir" => error # "mkdir"
    /\ (pc = "init" /\ dest_kind0 = "dir") =>
           /\ dest_kind = "dir"
           /\ dest = dest0
           /\ index_html = index0
    /\ LET once == mkdir(DestDir, TRUE)
           again == mkdir([kind |-> once.kind, contents |-> once.contents,
                           index |-> once.index], TRUE)
       IN  ~once.raised => again = once

C8_Witness ==
    /\ pc = "init"
    /\ dest_kind0 = "dir"
    /\ dest0 = {OldName, IndexName}
    /\ dest = dest0
    /\ index_html = OldIndex

\* C9 as stated: in every state of a run each list item in the buffer names
\* an entry already moved, and there are as many list items as moved entries.
C9_Original ==
    /\ Len(ItemsOf(index_content)) = Len(moved)
    /\ \A i \in 1..Len(ItemsOf(index_content)) :
           i <= Len(moved) /\ ItemsOf(index_content)[i] = ExpectedItem(moved[i])

\* C9 amended: in every state of a run each list item in the buffer names
\* an entry already moved, in the order of the moves; there are as many list
\* items as moved entries, except between an entry's rename and its append,
\* where the entry just moved is the one moved entry without a list item.
C9_MoveBeforeRecord ==
    LET items == ItemsOf(index_content)
    IN  /\ Len(items) <= Len(moved)
        /\ \A i \in 1..Len(items) : items[i] = ExpectedItem(moved[i])
        /\ pc \in {"escape", "append"} =>
               /\ Len(moved) = Len(items) + 1
               /\ moved[Len(moved)] = file
        /\ pc \notin {"escape", "append"} => Len(items) = Len(moved)

C9_Witness ==
    /\ pc = "escape"
    /\ Len(moved) = 2
    /\ Len(ItemsOf(index_content)) = 1
    /\ ItemsOf(index_content)[1] = ExpectedItem(moved[1])

\* The run failed for a missing source or a failed move.
FailedBeforeWrite ==
    /\ pc = "failed"
    /\ \/ error = "iterdir" /\ ~src_exists
       \/ error = "rename"

\* C10 as stated: in a run that fails for a missing source or a failed move,
\* docs/index.html is exactly what it was before the run.
C10_Original == FailedBeforeWrite => index_html = index0

\* C10 amended: in a run that fails for a missing source or a failed move,
\* docs/index.html is exactly what it was before the run, unless an entry
\* itself named index.html was moved before the failure, and then it is that
\* entry; the index text is never written in such a run.
C10_IndexUntouched ==
    FailedBeforeWrite =>
        index_html = IF IndexName \in Range(moved) THEN Blob(run) ELSE index0

\* A failed move after one entry was moved: the old index is intact and
\* does not list the moved entry.
C10_Witness ==
    /\ pc = "failed"
    /\ error = "rename"
    /\ Len(moved) = 1
    /\ moved[1] \in dest
    /\ index0 = OldIndex
    /\ index_html = index0
    /\ ExpectedItem(moved[1]) \notin Range(index_html.text)
====
